---- MODULE Spec2Model ----
(***************************************************************************)
(* Subsampling layers of chrispnet/modules/encoder/prenet/subsampling.py:  *)
(* StackingSubsampling, ConvSubsampling and calc_length.  The model keeps   *)
(* the sizes and the length vectors (the tensors' contents play no part in  *)
(* the length arithmetic) and one component per behaviour.                  *)
(***************************************************************************)
EXTENDS Integers, Sequences, FiniteSets, TLC

VARIABLES status, args, cfg, out, seen

vars == <<status, args, cfg, out, seen>>

-----------------------------------------------------------------------------
(* Bounds of the model *)

MaxT == 9          \* largest time size of a forward call
MaxBatch == 1      \* largest batch size of a forward call
MaxFactor == 8     \* largest subsampling factor tried at construction
HistMaxT == 3      \* largest time size / length in the two-call specification

(* Program constants *)

FeatIn == 80       \* feat_in of the __main__ scenario
MainT == 1600      \* T of the __main__ scenario
MainFactor == 4    \* subsampling_factor of the __main__ scenario

Strategies == {"vggnet", "striding", "unknown"}

MainLengths == <<1600, 324, 1, 666>>

-----------------------------------------------------------------------------
(* Arithmetic helpers *)

FloorDiv(a, b) == a \div b

CeilDiv(a, b) == -((-a) \div b)

RECURSIVE Pow2(_)
Pow2(n) == IF n = 0 THEN 1 ELSE 2 * Pow2(n - 1)

IsPow2(f) == \E k \in 0..f : Pow2(k) = f

Batches(n, m) == UNION {[1..k -> 0..m] : k \in 1..n}

-----------------------------------------------------------------------------
(* StackingSubsampling *)

\* line 36 with the usual fix: no padding when t is a multiple of the factor
PadSizeModulo(t, factor) == (factor - (t % factor)) % factor

\* line 36: pad_size = self.subsampling_factor - (t % self.subsampling_factor)
PadSize(t, factor) == factor - (t % factor)

\* the time size of the reshape taken from the unpadded tensor
StackedTimeUnpadded(t, factor) == FloorDiv(t, factor)

\* lines 37-41: pad the time axis, re-read t, reshape to t // factor steps
StackedTime(t, factor) == FloorDiv(t + PadSize(t, factor), factor)

\* lines 43-45: torch.div(lengths + pad_size, factor, rounding_mode="floor")
StackingLengths(lengths, t, factor) ==
    [i \in 1..Len(lengths) |-> FloorDiv(lengths[i] + PadSize(t, factor), factor)]

-----------------------------------------------------------------------------
(* calc_length *)

\* add_pad computed with the padding counted once
AddPadOneSide(padding, kernel_size) == padding - kernel_size

\* line 172: add_pad = (padding * 2) - kernel_size
AddPad(padding, kernel_size) == (padding * 2) - kernel_size

\* rounding that ignores ceil_mode
RoundFloorOnly(num, den, ceil_mode) == FloorDiv(num, den)

\* lines 176-179: torch.ceil or torch.floor of the exact quotient num / den
\* (the float32 quotient is exact: the stride is 2 and the values are small)
RoundLength(num, den, ceil_mode) ==
    IF ceil_mode THEN CeilDiv(num, den) ELSE FloorDiv(num, den)

\* line 175 then 176-179: (length + add_pad) / stride + 1.0, rounded
CalcStep(length, padding, kernel_size, stride, ceil_mode) ==
    RoundLength(length + AddPad(padding, kernel_size) + stride, stride, ceil_mode)

\* lines 170-180, one entry of the tensor
RECURSIVE CalcOne(_, _, _, _, _, _)
CalcOne(length, padding, kernel_size, stride, ceil_mode, repeat_num) ==
    IF repeat_num = 0 THEN length
    ELSE CalcOne(CalcStep(length, padding, kernel_size, stride, ceil_mode),
                 padding, kernel_size, stride, ceil_mode, repeat_num - 1)

\* lines 170-180, elementwise over the tensor
calc_length(lengths, padding, kernel_size, stride, ceil_mode, repeat_num) ==
    [i \in 1..Len(lengths) |->
        CalcOne(lengths[i], padding, kernel_size, stride, ceil_mode, repeat_num)]

-----------------------------------------------------------------------------
(* The layers of the convolution stack *)

\* torch.nn.Conv2d output size along one axis (dilation 1)
Conv2dOut(n, kernel, stride, padding) ==
    FloorDiv(n + 2 * padding - (kernel - 1) - 1, stride) + 1

\* torch.nn.MaxPool2d output size along one axis; in ceil mode the last
\* window must start inside the input or the left padding
MaxPool2dOut(n, kernel, stride, padding, ceil_mode) ==
    LET o == (IF ceil_mode THEN CeilDiv(n + 2 * padding - kernel, stride)
                           ELSE FloorDiv(n + 2 * padding - kernel, stride)) + 1
    IN  IF ceil_mode /\ (o - 1) * stride >= n + padding THEN o - 1 ELSE o

\* a layer rejects an input smaller than its kernel (after padding)
Conv2dFits(n, kernel, padding) == n + 2 * padding >= kernel

\* lines 88-117: conv 3x3/1/1, conv 3x3/1/1, max-pool with the component's
\* kernel, stride, padding and ceil mode
VggStage(c, n) ==
    MaxPool2dOut(Conv2dOut(Conv2dOut(n, 3, 1, 1), 3, 1, 1),
                 c.kernel_size, c.stride, c.padding, c.ceil_mode)

\* lines 124-135: one conv with the component's kernel, stride and padding
StridingStage(c, n) == Conv2dOut(n, c.kernel_size, c.stride, c.padding)

\* the first layer of either stack is a 3x3 convolution with padding 1
StageFits(c, n) == Conv2dFits(n, 3, 1)

\* line 164: self.conv(x) along one axis; -1 when a layer rejects its input
RECURSIVE ConvStack(_, _, _)
ConvStack(c, n, stages) ==
    IF stages = 0 THEN n
    ELSE IF ~StageFits(c, n) THEN -1
    ELSE ConvStack(c,
                   IF c.subsampling = "vggnet" THEN VggStage(c, n)
                                               ELSE StridingStage(c, n),
                   stages - 1)

-----------------------------------------------------------------------------
(* Construction *)

NoConfig ==
    [cls |-> "none", subsampling |-> "", subsampling_factor |-> 0,
     sampling_num |-> 0, padding |-> 0, stride |-> 0, kernel_size |-> 0,
     ceil_mode |-> FALSE, out_width |-> 0]

NoCall ==
    [called |-> FALSE, ok |-> FALSE, t |-> 0, lengths |-> <<>>,
     pad_size |-> 0, t_out |-> 0, lengths_out |-> <<>>]

NoArgs == [cls |-> "none", subsampling |-> "", subsampling_factor |-> 0]

StackingArgs(factor) ==
    [cls |-> "StackingSubsampling", subsampling |-> "",
     subsampling_factor |-> factor]

ConvArgs(subsampling, factor) ==
    [cls |-> "ConvSubsampling", subsampling |-> subsampling,
     subsampling_factor |-> factor]

\* lines 29-32: StackingSubsampling.__init__ keeps the factor only
StackingConfig(factor) ==
    [NoConfig EXCEPT !.cls = "StackingSubsampling",
                     !.subsampling_factor = factor]

\* a parity test that lets the factor 1 through
FactorCheckFailsAboveOne(factor) == factor % 2 # 0 /\ factor > 1

\* line 74: if subsampling_factor % 2 != 0: raise ValueError
FactorCheckFails(factor) == factor % 2 # 0

\* math.log raises ValueError ("math domain error") for a factor <= 0
LogDomainError(factor) == factor <= 0

\* the repeat count taken as half the factor
HalfFactor(factor) == FloorDiv(factor, 2)

\* line 76: int(math.log(subsampling_factor, 2)), the largest k with 2^k <= factor
Log2Int(factor) ==
    CHOOSE k \in 0..factor : Pow2(k) <= factor /\ factor < Pow2(k + 1)

\* lines 82 and 118: the two accepted strategy names
ValidStrategy(subsampling) == subsampling \in {"vggnet", "striding"}

\* lines 72-148: the attributes of a constructed ConvSubsampling
ConvConfig(subsampling, factor) ==
    LET vgg == subsampling = "vggnet"
        p == IF vgg THEN 0 ELSE 1
        k == IF vgg THEN 2 ELSE 3
        r == Log2Int(factor)
    IN  [cls |-> "ConvSubsampling", subsampling |-> subsampling,
         subsampling_factor |-> factor, sampling_num |-> r,
         padding |-> p, stride |-> 2, kernel_size |-> k, ceil_mode |-> vgg,
         out_width |-> calc_length(<<FeatIn>>, p, k, 2, vgg, r)[1]]

\* lines 29-32
StackingInit ==
    /\ status = "none"
    /\ \E factor \in 1..MaxFactor :
          /\ args' = StackingArgs(factor)
          /\ cfg' = StackingConfig(factor)
          /\ status' = "built"
    /\ UNCHANGED <<out, seen>>

\* lines 62-149: the three ways construction raises, else the component
ConvInit ==
    /\ status = "none"
    /\ \E subsampling \in Strategies, factor \in 0..MaxFactor :
          /\ args' = ConvArgs(subsampling, factor)
          /\ IF \/ FactorCheckFails(factor)
                \/ LogDomainError(factor)
                \/ ~ValidStrategy(subsampling)
             THEN /\ status' = "ValueError"
                  /\ cfg' = cfg
             ELSE /\ status' = "built"
                  /\ cfg' = ConvConfig(subsampling, factor)
    /\ UNCHANGED <<out, seen>>

-----------------------------------------------------------------------------
(* Forward passes *)

\* lines 34-46
StackingResult(c, t, lengths) ==
    [called |-> TRUE, ok |-> TRUE, t |-> t, lengths |-> lengths,
     pad_size |-> PadSize(t, c.subsampling_factor),
     t_out |-> StackedTime(t, c.subsampling_factor),
     lengths_out |-> StackingLengths(lengths, t, c.subsampling_factor)]

\* lines 154-161 with repeat_num left at its default of 1
ForwardLengthsOnce(c, lengths) ==
    calc_length(lengths, c.padding, c.kernel_size, c.stride, c.ceil_mode, 1)

\* lines 154-161: calc_length with the component's attributes
ForwardLengths(c, lengths) ==
    calc_length(lengths, c.padding, c.kernel_size, c.stride, c.ceil_mode,
                c.sampling_num)

\* lines 151-167: nothing is returned when a layer rejects the input size or
\* the flattened width differs from the in_features of self.out
ConvResult(c, t, lengths) ==
    LET t_out == ConvStack(c, t, c.sampling_num)
        f_out == ConvStack(c, FeatIn, c.sampling_num)
        ok == t_out >= 0 /\ f_out >= 0 /\ f_out = c.out_width
    IN  [called |-> TRUE, ok |-> ok, t |-> t, lengths |-> lengths,
         pad_size |-> 0,
         t_out |-> IF ok THEN t_out ELSE 0,
         lengths_out |-> IF ok THEN ForwardLengths(c, lengths) ELSE <<>>]

\* the caller's record of an earlier result: kept, or replaced by the latest
\* result before the new call
Earlier(keep) == IF keep THEN seen ELSE out

\* lines 34-46: forward assigns no attribute of self
StackingForward(t, lengths, keep) ==
    /\ status = "built"
    /\ cfg.cls = "StackingSubsampling"
    /\ out' = StackingResult(cfg, t, lengths)
    /\ seen' = Earlier(keep)
    /\ UNCHANGED <<status, args, cfg>>

\* a forward that consumes one stage of the repeat count on every call
ConvForwardConsuming(t, lengths, keep) ==
    /\ status = "built"
    /\ cfg.cls = "ConvSubsampling"
    /\ out' = ConvResult(cfg, t, lengths)
    /\ seen' = Earlier(keep)
    /\ cfg' = [cfg EXCEPT !.sampling_num = IF @ > 1 THEN @ - 1 ELSE @]
    /\ UNCHANGED <<status, args>>

\* lines 151-167: forward assigns no attribute of self
ConvForward(t, lengths, keep) ==
    /\ status = "built"
    /\ cfg.cls = "ConvSubsampling"
    /\ out' = ConvResult(cfg, t, lengths)
    /\ seen' = Earlier(keep)
    /\ UNCHANGED <<status, args, cfg>>

\* a forward call; the lengths run up to one past the time size
StackingCall ==
    \E t \in 0..MaxT : \E lengths \in Batches(MaxBatch, t + 1) :
        StackingForward(t, lengths, TRUE)

ConvCall ==
    \E t \in 0..MaxT : \E lengths \in Batches(MaxBatch, t + 1) :
        ConvForward(t, lengths, TRUE)

\* lines 183-212: the script builds a striding component of factor 4 and
\* calls forward once on T = 1600 and lengths [1600, 324, 1, 666]
Main ==
    /\ status = "none"
    /\ ~FactorCheckFails(MainFactor)
    /\ ~LogDomainError(MainFactor)
    /\ status' = "built"
    /\ args' = ConvArgs("striding", MainFactor)
    /\ cfg' = ConvConfig("striding", MainFactor)
    /\ out' = ConvResult(cfg', MainT, MainLengths)
    /\ UNCHANGED seen

\* forward calls on small inputs (lengths up to the time size), with the
\* caller keeping an earlier result
StackingCallSmall ==
    \E t \in 0..HistMaxT, keep \in BOOLEAN :
        \E lengths \in Batches(MaxBatch, t) :
            StackingForward(t, lengths, keep)

ConvCallSmall ==
    \E t \in 0..HistMaxT, keep \in BOOLEAN :
        \E lengths \in Batches(MaxBatch, t) :
            ConvForward(t, lengths, keep)

-----------------------------------------------------------------------------
(* Specifications *)

Init ==
    /\ status = "none"
    /\ args = NoArgs
    /\ cfg = NoConfig
    /\ out = NoCall
    /\ seen = NoCall

Next == StackingInit \/ ConvInit \/ Main \/ StackingCall \/ ConvCall

Spec == Init /\ [][Next]_vars

NextHist ==
    StackingInit \/ ConvInit \/ Main \/ StackingCallSmall \/ ConvCallSmall

SpecHist == Init /\ [][NextHist]_vars

Built == status = "built"

Returned == Built /\ out.called /\ out.ok

IsConv == cfg.cls = "ConvSubsampling"

IsStacking == cfg.cls = "StackingSubsampling"

Items == 1..Len(out.lengths)

Factor == cfg.subsampling_factor

InputLengthsValid == \A i \in Items : 0 <= out.lengths[i] /\ out.lengths[i] <= out.t

-----------------------------------------------------------------------------
(* Properties *)

\* C1: for either strategy and every repeat count, an item of a ConvSubsampling
\* forward whose length equals the input time size T gets from calc_length
\* exactly the time size T' that the convolution stack produces.
LengthConsistency ==
    (Returned /\ IsConv) =>
        \A i \in Items :
            out.lengths[i] = out.t => out.lengths_out[i] = out.t_out

LengthConsistencyWitness ==
    /\ Returned /\ IsConv
    /\ cfg.subsampling = "vggnet" /\ cfg.sampling_num >= 2
    /\ out.t >= 3 /\ out.t % 2 = 1
    /\ \E i \in Items : out.lengths[i] = out.t /\ out.lengths_out[i] = out.t_out

\* C2: when every input length of a forward call lies in 0..T, every returned
\* length lies in 0..T', T' being the time size of the returned tensor, for
\* both components.
LengthBound ==
    (Returned /\ InputLengthsValid) =>
        \A i \in Items :
            0 <= out.lengths_out[i] /\ out.lengths_out[i] <= out.t_out

LengthBoundWitness ==
    /\ Returned /\ IsStacking /\ InputLengthsValid
    /\ Factor >= 2 /\ out.t >= 1
    /\ \E i \in Items : out.lengths[i] = out.t /\ out.lengths_out[i] = out.t_out

\* C3: StackingSubsampling.forward returns a tensor of time size ceil(T / F).
StackingCeilTime ==
    (Returned /\ IsStacking) => out.t_out = CeilDiv(out.t, Factor)

\* C4: no ConvSubsampling component exists whose subsampling factor is not a
\* power of two: construction with such a factor raises.
PowerOfTwoOnly ==
    (args.cls = "ConvSubsampling" /\ ~IsPow2(args.subsampling_factor)) =>
        (status = "ValueError" /\ cfg = NoConfig)

\* C5: for either strategy, a power-of-two factor >= 2 and T >= 1, the tensor
\* returned by ConvSubsampling.forward has time size ceil(T / factor).
ConvOutputTime ==
    (Returned /\ IsConv /\ IsPow2(Factor) /\ Factor >= 2 /\ out.t >= 1) =>
        out.t_out = CeilDiv(out.t, Factor)

ConvOutputTimeWitness ==
    /\ Returned /\ IsConv
    /\ Factor = 8 /\ out.t = 9 /\ out.t_out = 2

\* C6: StackingSubsampling.forward pads by pad_size = F - (T mod F), which lies
\* in 1..F and is F when T is a multiple of F, and returns
\* floor((length + pad_size) / F) for every item; for T a multiple of F that is
\* floor((length + F) / F), never floor(length / F).
StackingFormula ==
    (Returned /\ IsStacking) =>
        /\ out.pad_size = Factor - (out.t % Factor)
        /\ out.pad_size \in 1..Factor
        /\ (out.t % Factor = 0) => (out.pad_size = Factor)
        /\ \A i \in Items :
              /\ out.lengths_out[i] = (out.lengths[i] + out.pad_size) \div Factor
              /\ (out.t % Factor = 0) =>
                    /\ out.lengths_out[i] = (out.lengths[i] + Factor) \div Factor
                    /\ out.lengths_out[i] # out.lengths[i] \div Factor

StackingFormulaWitness ==
    /\ Returned /\ IsStacking
    /\ Factor >= 2 /\ out.t >= Factor /\ out.t % Factor = 0
    /\ \E i \in Items : out.lengths[i] >= 1

\* C7: a ConvSubsampling construction with an odd factor, or with an even
\* factor and a strategy other than "vggnet" and "striding", ends in ValueError
\* and yields no component, so a forward call only happens on a component with
\* an even factor and one of the two strategies.
InvalidConfigRejected ==
    /\ (/\ args.cls = "ConvSubsampling"
        /\ \/ args.subsampling_factor % 2 # 0
           \/ ~(args.subsampling \in {"vggnet", "striding"}))
       => (status = "ValueError" /\ cfg = NoConfig /\ ~out.called)
    /\ (IsConv /\ (Built \/ out.called))
       => (Factor % 2 = 0 /\ cfg.subsampling \in {"vggnet", "striding"})

InvalidConfigRejectedWitness ==
    /\ args.cls = "ConvSubsampling"
    /\ args.subsampling_factor = 3
    /\ args.subsampling = "striding"
    /\ status = "ValueError"

\* C8: with strategy "striding" and R stages the returned length of an item is
\* ceil(length / 2^R) (0 for length 0); factor 4 on T = 1600 and lengths
\* [1600, 324, 1, 666] returns time size 400 and lengths [400, 81, 1, 167].
StridingReduction ==
    (Returned /\ IsConv /\ cfg.subsampling = "striding") =>
        /\ \A i \in Items :
              /\ out.lengths_out[i] = CeilDiv(out.lengths[i], Pow2(cfg.sampling_num))
              /\ (out.lengths[i] = 0) => (out.lengths_out[i] = 0)
        /\ (Factor = 4 /\ out.t = 1600 /\ out.lengths = <<1600, 324, 1, 666>>)
              => (out.t_out = 400 /\ out.lengths_out = <<400, 81, 1, 167>>)

StridingReductionWitness ==
    /\ Returned /\ IsConv /\ cfg.subsampling = "striding" /\ Factor = 4
    /\ out.t = 1600 /\ out.lengths = <<1600, 324, 1, 666>>
    /\ out.lengths_out = <<400, 81, 1, 167>>

\* C9: a forward call leaves the configuration of the component unchanged, and
\* two forward calls of a behaviour with equal time size and lengths return
\* equal time size and lengths.
SameInputsSameOutputs ==
    (seen.called /\ out.called /\ seen.t = out.t /\ seen.lengths = out.lengths)
        => (/\ seen.ok = out.ok
            /\ seen.t_out = out.t_out
            /\ seen.lengths_out = out.lengths_out)

Statelessness ==
    /\ [][Built => cfg' = cfg]_vars
    /\ []SameInputsSameOutputs

StatelessnessWitness ==
    /\ Returned /\ IsConv /\ cfg.sampling_num >= 2
    /\ seen.called /\ seen.ok
    /\ seen.t = out.t /\ seen.lengths = out.lengths
    /\ out.t >= 2

\* C10: StackingSubsampling keeps every valid frame inside the reduced valid
\* length: for an item with 1 <= length <= T, updated_length * F >= length.
StackingKeepsFrames ==
    (Returned /\ IsStacking) =>
        \A i \in Items :
            (1 <= out.lengths[i] /\ out.lengths[i] <= out.t)
                => out.lengths_out[i] * Factor >= out.lengths[i]

====
